---- MODULE Spec2Model ----
(***************************************************************************)
(* Model of the AI trading-term explainer: the Streamlit front end         *)
(* (agent_ui.py) and the query logic it calls (my_ai_agent_logic.py).      *)
(*                                                                         *)
(* A text is a sequence of pieces.  Text that comes from outside the code  *)
(* (what the user types, the terms and definitions of the terms file, the  *)
(* persona turns) is spelled one character per piece, so that lower(),     *)
(* title(), startswith() and split() work on it as Python's do.  A string  *)
(* literal of the code is kept as one piece; the code never changes the    *)
(* case of a literal nor splits one.  f-strings are concatenations.        *)
(***************************************************************************)
EXTENDS Integers, Sequences, FiniteSets, TLC

VARIABLES
    env,                            \* the files and the credential the run finds
    fs_ok,                          \* the log file can be written
    agent_initialized,              \* st.session_state.agent_initialized
    help_text,                      \* st.session_state.help_text
    help_text_content,              \* st.session_state.help_text_content
    initial_chat_history_template,  \* st.session_state.initial_chat_history_template
    knowledge_base,                 \* st.session_state.knowledge_base
    chat_history,                   \* st.session_state.chat_session.history
    display_messages,               \* st.session_state.display_messages
    log_file,                       \* the lines of the file st.session_state.log_file
    notice,                         \* the st.warning / st.info / st.error of the last script run
    session_ended,                  \* a quit or exit has been handled
    steps,                          \* user events handled so far
    last                            \* what the last script run did

vars == <<env, fs_ok, agent_initialized, help_text, help_text_content,
          initial_chat_history_template, knowledge_base, chat_history,
          display_messages, log_file, notice, session_ended, steps, last>>

\* Bounds of the model: the user events of a run, the records of a terms file.
MaxSteps == 2
MaxRecords == 3

-----------------------------------------------------------------------------
(* Python's str operations, on texts spelled one character per piece.      *)

LowerLetters == <<"a","b","c","d","e","f","g","h","i","j","k","l","m",
                  "n","o","p","q","r","s","t","u","v","w","x","y","z">>
UpperLetters == <<"A","B","C","D","E","F","G","H","I","J","K","L","M",
                  "N","O","P","Q","R","S","T","U","V","W","X","Y","Z">>

\* The lower-case letter of each upper-case letter, and back.
ToLower == [c \in {UpperLetters[i] : i \in DOMAIN UpperLetters} |->
               LowerLetters[CHOOSE i \in DOMAIN UpperLetters : UpperLetters[i] = c]]
ToUpper == [c \in {LowerLetters[i] : i \in DOMAIN LowerLetters} |->
               UpperLetters[CHOOSE i \in DOMAIN LowerLetters : LowerLetters[i] = c]]

IsUpper(c) == c \in DOMAIN ToLower
IsLower(c) == c \in DOMAIN ToUpper
IsCased(c) == IsUpper(c) \/ IsLower(c)

lower_char(c) == IF IsUpper(c) THEN ToLower[c] ELSE c
upper_char(c) == IF IsLower(c) THEN ToUpper[c] ELSE c

\* lower() that stops after the first character.
lower_first_only(s) == [i \in 1..Len(s) |-> IF i = 1 THEN lower_char(s[i]) ELSE s[i]]

\* str.lower()
lower(s) == [i \in 1..Len(s) |-> lower_char(s[i])]

\* str.title(): a cased character is upper-cased after an uncased one (or at
\* the start) and lower-cased after a cased one.
title(s) ==
    [i \in 1..Len(s) |->
        IF i = 1 \/ ~IsCased(s[i - 1]) THEN upper_char(s[i]) ELSE lower_char(s[i])]

\* str.startswith(prefix)
startswith(s, prefix) ==
    /\ Len(s) >= Len(prefix)
    /\ SubSeq(s, 1, Len(prefix)) = prefix

\* str.split(sep, maxsplit) for a one-character separator: cut at the first
\* maxsplit separators, keeping empty parts.
RECURSIVE split(_, _, _)
split(s, sep, maxsplit) ==
    IF maxsplit = 0 \/ ~(\E i \in 1..Len(s) : s[i] = sep)
    THEN <<s>>
    ELSE LET i == CHOOSE k \in 1..Len(s) :
                     /\ s[k] = sep
                     /\ \A j \in 1..(k - 1) : s[j] # sep
         IN  <<SubSeq(s, 1, i - 1)>> \o split(SubSeq(s, i + 1, Len(s)), sep, maxsplit - 1)

\* sep.join(parts)
RECURSIVE join(_, _)
join(sep, parts) ==
    IF Len(parts) = 0 THEN <<>>
    ELSE IF Len(parts) = 1 THEN parts[1]
    ELSE parts[1] \o <<sep>> \o join(sep, Tail(parts))

-----------------------------------------------------------------------------
(* Python's dict, in insertion order: a sequence of <<key, value>> pairs    *)
(* with distinct keys.                                                      *)

dict_has(d, k) == \E i \in 1..Len(d) : d[i][1] = k
dict_get(d, k) == d[CHOOSE i \in 1..Len(d) : d[i][1] = k][2]
dict_keys(d)   == [i \in 1..Len(d) |-> d[i][1]]
dict_set(d, k, v) ==
    IF dict_has(d, k)
    THEN [i \in 1..Len(d) |-> IF d[i][1] = k THEN <<k, v>> ELSE d[i]]
    ELSE Append(d, <<k, v>>)

-----------------------------------------------------------------------------
(* my_ai_agent_logic.py                                                     *)

None == ""          \* speaker=None (any falsy speaker)

DASHES_30 == "------------------------------"             \* "-" * 30
EQUALS_40 == "========================================"   \* "=" * 40

\* log_to_file: one line appended, prefixed with the speaker if there is one.
\* A write that fails is printed to the console and the file is left as it was.
log_to_file(log, ok, message, speaker) ==
    IF ~ok THEN log
    ELSE IF speaker # None
         THEN Append(log, <<speaker, ": ">> \o message)
         ELSE Append(log, message)

\* get_help_for_ui: [log, returned]
get_help_for_ui(loaded_help_text_from_file, log, ok) ==
    LET l1 == log_to_file(log, ok, <<"--- User typed /help ---">>, None)
        l2 == log_to_file(l1, ok, <<"Displayed help message.">>, "System")
        l3 == log_to_file(l2, ok, <<DASHES_30>>, None)
    IN  [log |-> l3, returned |-> loaded_help_text_from_file]

\* "\n".join([f"- {term.title()}" for term in knowledge_base.keys()])
RECURSIVE terms_lines(_)
terms_lines(keys) ==
    IF Len(keys) = 0 THEN <<>>
    ELSE IF Len(keys) = 1 THEN <<"- ">> \o title(keys[1])
    ELSE <<"- ">> \o title(keys[1]) \o <<"\n">> \o terms_lines(Tail(keys))

\* get_my_terms_list_text: [log, returned]
get_my_terms_list_text(kb, log, ok) ==
    LET l1 == log_to_file(log, ok, <<"--- User typed /my_terms ---">>, None)
        msg == IF Len(kb) > 0
               THEN <<"I have predefined definitions for these terms:\n">>
                        \o terms_lines(dict_keys(kb))
               ELSE <<"My local knowledge base of terms is currently empty.">>
        l2 == log_to_file(l1, ok, msg, "AI Agent")
        l3 == log_to_file(l2, ok, <<DASHES_30>>, None)
    IN  [log |-> l3, returned |-> msg]

WHAT_IS == <<"w","h","a","t"," ","i","s"," ">>
EXPLAIN == <<"e","x","p","l","a","i","n"," ">>

\* The candidate lookup key (lines 91-95).
term_to_explain(user_query_original, user_query_lower) ==
    IF startswith(user_query_lower, WHAT_IS) \/ startswith(user_query_lower, EXPLAIN)
    THEN LET parts == split(user_query_original, " ", 2)
         IN  IF Len(parts) > 1
             THEN lower(join(" ", Tail(parts)))
             ELSE user_query_lower
    ELSE user_query_lower

\* f"From my local knowledge: {display_term} is defined as - \"{definition}\"."
local_def_message(display_term, definition) ==
    <<"From my local knowledge: ">> \o display_term
        \o <<" is defined as - \"">> \o definition \o <<"\".">>

\* The augmented prompt of a local hit (lines 105-109).
augmented_prompt(display_term, definition, persona_initial_history) ==
    <<"The user asked about '">> \o display_term
        \o <<"'. My local knowledge says: '">> \o definition \o <<"'. ">>
        \o persona_initial_history[1].parts[1].text

\* A chat turn of the remote session.
Turn(role, text) == [role |-> role, parts |-> <<[text |-> text]>>]

\* The remote chat session.  A reply is what the remote end does with one
\* send: kind "text" (reply.text readable), "blocked" (reply.text raises
\* ValueError), "text_error" (reply.text raises something else) or
\* "send_error" (send_message itself raises).
start_chat(history) == history

send_message(history, prompt, reply) ==
    IF reply.kind = "send_error"
    THEN [raised |-> TRUE, history |-> history]
    ELSE [raised |-> FALSE,
          history |-> history \o <<Turn("user", prompt),
                                   Turn("model", IF reply.kind = "text"
                                                 THEN reply.text ELSE <<>>)>>]

\* The blocked placeholder without the prompt feedback.
ai_response_text_without_feedback(reply) ==
    CASE reply.kind = "text" -> reply.text
      [] reply.kind = "blocked" ->
            <<"[LLM Response blocked or contained no valid text content]">>
      [] OTHER -> <<"[Error accessing LLM response text: ">> \o reply.error \o <<"]">>

\* response.text and its two handlers (lines 119-127).
ai_response_text(reply) ==
    CASE reply.kind = "text" -> reply.text
      [] reply.kind = "blocked" ->
            <<"[LLM Response blocked or contained no valid text content]">>
                \o (IF reply.prompt_feedback # <<>>
                    THEN <<"\nPrompt Feedback: ">> \o reply.prompt_feedback
                    ELSE <<>>)
      [] OTHER -> <<"[Error accessing LLM response text: ">> \o reply.error \o <<"]">>

UIMessage(speaker_type, text) == [speaker_type |-> speaker_type, text |-> text]

\* The lower-cased query sent in place of the text as typed.
default_prompt_lowered(user_query_original, user_query_lower) == user_query_lower

\* prompt_for_ai = user_query_original (line 88): the prompt when the key is
\* not in the knowledge base.
default_prompt(user_query_original, user_query_lower) == user_query_original

\* A failed send reported without the advice to retry.
failure_messages_without_info(error_msg) ==
    <<UIMessage("system_error", error_msg)>>

\* The messages of a send that raised (lines 133-137).
failure_messages(error_msg) ==
    <<UIMessage("system_error", error_msg),
      UIMessage("system_info", <<"Please check your input or try again.">>)>>

\* process_ai_query: [messages_for_ui, log, history, prompt, key]
process_ai_query(user_query_original, user_query_lower, history, kb, log, ok, persona_initial_history, reply) ==
    LET key  == term_to_explain(user_query_original, user_query_lower)
        hit  == dict_has(kb, key)
        defn == dict_get(kb, key)
        display_term == title(key)
        local == local_def_message(display_term, defn)
        ui1  == IF hit THEN <<UIMessage("local", local)>> ELSE <<>>
        l1   == IF hit THEN log_to_file(log, ok, local, "AI Agent (Local)") ELSE log
        prompt_for_ai ==
            IF hit THEN augmented_prompt(display_term, defn, persona_initial_history)
            ELSE default_prompt(user_query_original, user_query_lower)
        sent == send_message(history, prompt_for_ai, reply)
        text == ai_response_text(reply)
        error_msg == <<"An error occurred sending message or generating content: ">>
                        \o reply.error
    IN  IF ~sent.raised
        THEN [messages_for_ui |-> Append(ui1, UIMessage("llm", text)),
              log |-> log_to_file(log_to_file(l1, ok, text, "AI Agent (LLM)"),
                                  ok, <<DASHES_30>>, None),
              history |-> sent.history,
              prompt |-> prompt_for_ai,
              key |-> key]
        ELSE [messages_for_ui |-> ui1 \o failure_messages(error_msg),
              log |-> log_to_file(log_to_file(l1, ok, error_msg, "System Error"),
                                  ok, <<DASHES_30>>, None),
              history |-> sent.history,
              prompt |-> prompt_for_ai,
              key |-> key]

-----------------------------------------------------------------------------
(* agent_ui.py: the session state and one script run per user event.        *)

\* st.session_state, as the handlers read and write it.
SessionState == [agent_initialized |-> agent_initialized,
                 help_text |-> help_text,
                 help_text_content |-> help_text_content,
                 initial_chat_history_template |-> initial_chat_history_template,
                 knowledge_base |-> knowledge_base,
                 chat_history |-> chat_history,
                 display_messages |-> display_messages,
                 log_file |-> log_file]

\* st.session_state before the first script run.
EmptySession == [agent_initialized |-> FALSE,
                 help_text |-> <<>>,
                 help_text_content |-> <<>>,
                 initial_chat_history_template |-> <<>>,
                 knowledge_base |-> <<>>,
                 chat_history |-> <<>>,
                 display_messages |-> <<>>,
                 log_file |-> <<>>]

Assistant(content) == [role |-> "assistant", content |-> content]
User(content)      == [role |-> "user", content |-> content]

\* What a script run did: the dispatcher branch it took, its calls of
\* process_ai_query, its calls of random.choice, the text its helper returned.
NoCalls == <<>>
Done(ss, shown, branch, calls, choices, returned) ==
    [ss |-> ss, notice |-> shown, branch |-> branch, calls |-> calls,
     choices |-> choices, returned |-> returned]

\* The record of one call of process_ai_query.
Call(original, lowered, reply, ok, history, log, r) ==
    [original |-> original, lower |-> lowered, reply |-> reply, log_ok |-> ok,
     history_before |-> history, history_after |-> r.history,
     messages_for_ui |-> r.messages_for_ui, prompt |-> r.prompt, key |-> r.key,
     logged |-> SubSeq(r.log, Len(log) + 1, Len(r.log))]

DEFAULT_HELP == <<"Default Help: Ask questions. Type /quit to exit.">>
DEFAULT_PERSONA == <<Turn("user", <<"Basic AI.">>), Turn("model", <<"Hi.">>)>>

\* load_data_from_file(...) with the fallback the caller applies to an
\* empty result.
load_or_default(loaded, default) == IF loaded = <<>> THEN default ELSE loaded

\* st.session_state.help_text (lines 128-131), which the sidebar shows, and
\* st.session_state.help_text_content (lines 172-175), which /help shows.
load_help_text_unread(e)  == DEFAULT_HELP    \* the help file never read
load_help_text(e)         == load_or_default(e.help_file, DEFAULT_HELP)
load_help_text_content(e) == load_or_default(e.help_file, DEFAULT_HELP)

\* A repeated term keeping its first definition.
kb_add_first_wins(kb, item) ==
    IF item.is_dict /\ "term" \in DOMAIN item.fields /\ "definition" \in DOMAIN item.fields
       /\ ~dict_has(kb, lower(item.fields.term))
    THEN dict_set(kb, lower(item.fields.term), item.fields.definition)
    ELSE kb

\* The knowledge base of lines 177-183.
kb_add(kb, item) ==
    IF item.is_dict /\ "term" \in DOMAIN item.fields /\ "definition" \in DOMAIN item.fields
    THEN dict_set(kb, lower(item.fields.term), item.fields.definition)
    ELSE kb

RECURSIVE kb_fold(_, _)
kb_fold(kb, items) ==
    IF Len(items) = 0 THEN kb ELSE kb_fold(kb_add(kb, Head(items)), Tail(items))

build_knowledge_base(loaded_terms) ==
    IF loaded_terms.is_list THEN kb_fold(<<>>, loaded_terms.items) ELSE <<>>

\* The fixed reset message whatever the history ends with.
trailing_model_text_ignored(history, fallback) == fallback

\* history and history[-1].role == "model": the trailing model turn's text,
\* or the fallback.
trailing_model_text(history, fallback) ==
    IF Len(history) > 0 /\ history[Len(history)].role = "model"
    THEN history[Len(history)].parts[1].text
    ELSE fallback

\* The header of a new log file (lines 189-193).
log_header(kb) ==
    << <<"Chat Log: ", "<now>">>,
       <<"Model: ", "gemini-2.0-flash">>,
       <<"Persona: ", "persona_config.json">>,
       <<"Help: ", "persona_help.txt">>,
       <<"Terms: ", "my_trading_terms.json">>,
       <<"Loaded ", ToString(Len(kb)), " local terms.">> >>

\* The display transcript of a session that has none yet (lines 213-226).
first_display(history, template) ==
    IF Len(history) > 0 /\ history[Len(history)].role = "model"
    THEN <<Assistant(history[Len(history)].parts[1].text)>>
    ELSE IF Len(template) > 0 /\ template[Len(template)].role = "model"
    THEN <<Assistant(template[Len(template)].parts[1].text)>>
    ELSE <<>>

\* The initialization block (lines 123-226) of a script run that finds no
\* agent_initialized, with the rerun that follows a success.  shown: what the
\* sidebar has put on the page before it.
initialize(ss, e, ok, shown, branch) ==
    LET ht  == load_help_text(e)
        s1  == [ss EXCEPT !.help_text = ht]
        tpl == load_or_default(e.persona_file, DEFAULT_PERSONA)
        kb  == build_knowledge_base(e.terms_file)
        s2  == [s1 EXCEPT !.initial_chat_history_template = tpl,
                          !.help_text_content = load_help_text_content(e),
                          !.knowledge_base = kb,
                          !.chat_history = start_chat(tpl)]
        l1  == log_to_file(log_header(kb), ok, <<EQUALS_40>>, None)
        l2  == IF Len(s2.chat_history) > 0
                  /\ s2.chat_history[Len(s2.chat_history)].role = "model"
               THEN log_to_file(
                        log_to_file(l1, ok, trailing_model_text(s2.chat_history, <<>>),
                                    "AI Agent"),
                        ok, <<EQUALS_40>>, None)
               ELSE l1
    IN  IF ~e.api_key
        THEN Done(s1, Append(shown, "API Key not found"), branch, NoCalls, 0, <<>>)
        ELSE IF ~ok
        THEN Done([s2 EXCEPT !.log_file = <<>>],
                  Append(shown, "Critical error during agent initialization"),
                  branch, NoCalls, 0, <<>>)
        ELSE Done([s2 EXCEPT !.log_file = l2,
                             !.agent_initialized = TRUE,
                             !.display_messages =
                                 first_display(s2.chat_history, tpl)],
                  <<>>, branch, NoCalls, 0, <<>>)

\* The role normalisation of lines 98-107, 288-296 and 310-318: every branch
\* of it gives "assistant".
display_of(messages_for_ui) ==
    [i \in 1..Len(messages_for_ui) |-> Assistant(messages_for_ui[i].text)]

\* f"Okay, let's talk about: '{random_term_key.title()}'"
selection_msg(random_term_key) ==
    <<"Okay, let's talk about: '">> \o title(random_term_key) \o <<"'">>

\* The sidebar's Reset button (lines 31-51).
sidebar_reset(ss, e, ok) ==
    IF ss.agent_initialized
    THEN LET history == start_chat(ss.initial_chat_history_template)
             msg == trailing_model_text(history, <<"Conversation has been reset!">>)
             l1  == log_to_file(ss.log_file, ok,
                        <<"--- User clicked Reset Chat button from sidebar ---">>, None)
             l2  == log_to_file(l1, ok, msg, "AI Agent")
             l3  == log_to_file(l2, ok, <<"---">>, None)
         IN  Done([ss EXCEPT !.chat_history = history,
                             !.display_messages = <<Assistant(msg)>>,
                             !.log_file = l3],
                  <<>>, "reset", NoCalls, 0, <<>>)
    ELSE initialize(ss, e, ok, <<"Agent not initialized yet. Cannot reset.">>, "none")

\* The sidebar's Help button (lines 54-60).
sidebar_help(ss, e, ok) ==
    IF ss.agent_initialized
    THEN LET r == get_help_for_ui(ss.help_text, ss.log_file, ok)
         IN  Done([ss EXCEPT !.display_messages = Append(@, Assistant(r.returned)),
                             !.log_file = r.log],
                  <<>>, "help", NoCalls, 0, r.returned)
    ELSE initialize(ss, e, ok, <<"Agent not initialized yet.">>, "none")

\* The sidebar's List My Terms button (lines 62-76).
sidebar_my_terms(ss, e, ok) ==
    IF ss.agent_initialized
    THEN LET r == get_my_terms_list_text(ss.knowledge_base, ss.log_file, ok)
         IN  Done([ss EXCEPT !.display_messages = Append(@, Assistant(r.returned)),
                             !.log_file = r.log],
                  <<>>, "my_terms", NoCalls, 0, r.returned)
    ELSE initialize(ss, e, ok, <<"Agent not initialized yet.">>, "none")

SIDEBAR_NO_TERMS ==
    <<"My local knowledge base is empty, so I can't pick a random term.">>

\* The sidebar's Explain Random Term button (lines 78-116).  The else of
\* line 108 belongs to the for loop of line 98, which never breaks; the else
\* of line 115 belongs to the if of line 81.
sidebar_random_term(ss, e, ok, pick, reply) ==
    IF ss.agent_initialized
    THEN LET l0 == log_to_file(ss.log_file, ok,
                       <<"--- User clicked Explain Random Term button ---">>, None)
         IN  IF Len(ss.knowledge_base) > 0
             THEN LET key == dict_keys(ss.knowledge_base)[pick]
                      sel == selection_msg(key)
                      l1  == log_to_file(l0, ok, sel, "AI Agent")
                      r   == process_ai_query(title(key), key, ss.chat_history,
                                 ss.knowledge_base, l1, ok,
                                 ss.initial_chat_history_template, reply)
                      l2  == log_to_file(r.log, ok, SIDEBAR_NO_TERMS, "AI Agent")
                      l3  == log_to_file(l2, ok, <<"---">>, None)
                  IN  Done([ss EXCEPT !.chat_history = r.history,
                                      !.display_messages =
                                          (Append(@, Assistant(sel))
                                               \o display_of(r.messages_for_ui))
                                               \o <<Assistant(SIDEBAR_NO_TERMS)>>,
                                      !.log_file = l3],
                           <<>>, "random_term",
                           <<Call(title(key), key, reply, ok, ss.chat_history, l1, r)>>,
                           1, <<>>)
             ELSE Done([ss EXCEPT !.log_file = l0],
                       <<"Agent not initialized yet.">>, "random_term", NoCalls, 0, <<>>)
    ELSE initialize(ss, e, ok, <<>>, "none")

QUIT        == <<"q","u","i","t">>
EXIT        == <<"e","x","i","t">>
RESET       == <<"/","r","e","s","e","t">>
HELP        == <<"/","h","e","l","p">>
MY_TERMS    == <<"/","m","y","_","t","e","r","m","s">>
RANDOM_TERM == <<"/","r","a","n","d","o","m","_","t","e","r","m">>

TYPED_NO_TERMS == <<"My local knowledge base is empty.">>

\* The branch of lines 243-303 a lower-cased input takes.
branch_of(user_query_lc) ==
    CASE user_query_lc \in {QUIT, EXIT}  -> "quit"
      [] user_query_lc = RESET           -> "reset"
      [] user_query_lc = HELP            -> "help"
      [] user_query_lc = MY_TERMS        -> "my_terms"
      [] user_query_lc = RANDOM_TERM     -> "random_term"
      [] OTHER                           -> "query"

\* A submitted chat input (lines 236-321).
chat_input(ss, ok, user_query, pick, reply) ==
    LET d0 == Append(ss.display_messages, User(user_query))
        l0 == log_to_file(ss.log_file, ok, user_query, "User")
        user_query_lc == lower(user_query)
        branch == branch_of(user_query_lc)
    IN  CASE branch = "quit" ->
            LET goodbye == <<"Goodbye! Hope this was helpful.">>
                l1 == log_to_file(l0, ok, goodbye, "AI Agent")
                l2 == log_to_file(l1, ok, <<"---">>, None)
                l3 == log_to_file(l2, ok, <<"Chat ended: ", "<now>">>, "System")
                l4 == log_to_file(l3, ok, <<EQUALS_40>>, None)
            IN  Done([ss EXCEPT !.display_messages = Append(d0, Assistant(goodbye)),
                                !.log_file = l4],
                     <<"Chat session ended. Refresh the page to start a new session.">>,
                     branch, NoCalls, 0, <<>>)
          [] branch = "reset" ->
            LET history == start_chat(ss.initial_chat_history_template)
                reset_msg == trailing_model_text(history, <<"Conversation reset by user.">>)
                l1 == log_to_file(l0, ok, <<"--- User typed /reset ---">>, None)
                l2 == log_to_file(l1, ok, reset_msg, "AI Agent")
                l3 == log_to_file(l2, ok, <<"---">>, None)
            IN  Done([ss EXCEPT !.chat_history = history,
                                !.display_messages = <<Assistant(reset_msg)>>,
                                !.log_file = l3],
                     <<>>, branch, NoCalls, 0, <<>>)
          [] branch = "help" ->
            LET r == get_help_for_ui(ss.help_text_content, l0, ok)
            IN  Done([ss EXCEPT !.display_messages = Append(d0, Assistant(r.returned)),
                                !.log_file = r.log],
                     <<>>, branch, NoCalls, 0, r.returned)
          [] branch = "my_terms" ->
            LET r == get_my_terms_list_text(ss.knowledge_base, l0, ok)
            IN  Done([ss EXCEPT !.display_messages = Append(d0, Assistant(r.returned)),
                                !.log_file = r.log],
                     <<>>, branch, NoCalls, 0, r.returned)
          [] branch = "random_term" ->
            LET l1 == log_to_file(l0, ok, <<"--- User typed /random_term ---">>, None)
            IN  IF Len(ss.knowledge_base) > 0
                THEN LET key == dict_keys(ss.knowledge_base)[pick]
                         sel == selection_msg(key)
                         l2  == log_to_file(l1, ok, sel, "AI Agent")
                         r   == process_ai_query(title(key), key, ss.chat_history,
                                    ss.knowledge_base, l2, ok,
                                    ss.initial_chat_history_template, reply)
                     IN  Done([ss EXCEPT !.chat_history = r.history,
                                         !.display_messages =
                                             Append(d0, Assistant(sel))
                                                 \o display_of(r.messages_for_ui),
                                         !.log_file =
                                             log_to_file(r.log, ok, <<"---">>, None)],
                              <<>>, branch,
                              <<Call(title(key), key, reply, ok, ss.chat_history, l2, r)>>,
                              1, <<>>)
                ELSE LET l2 == log_to_file(l1, ok, TYPED_NO_TERMS, "AI Agent")
                     IN  Done([ss EXCEPT !.display_messages =
                                             Append(d0, Assistant(TYPED_NO_TERMS)),
                                         !.log_file =
                                             log_to_file(l2, ok, <<"---">>, None)],
                              <<>>, branch, NoCalls, 0, <<>>)
          [] OTHER ->
            LET r == process_ai_query(user_query, user_query_lc, ss.chat_history,
                         ss.knowledge_base, l0, ok,
                         ss.initial_chat_history_template, reply)
            IN  Done([ss EXCEPT !.chat_history = r.history,
                                !.display_messages = d0 \o display_of(r.messages_for_ui),
                                !.log_file = r.log],
                     <<>>, branch,
                     <<Call(user_query, user_query_lc, reply, ok, ss.chat_history, l0, r)>>,
                     0, <<>>)

-----------------------------------------------------------------------------
(* The environment of a run, and what the user may do.                      *)

D1 == <<"d","1">>
D2 == <<"d","2">>
D3 == <<"d","3">>

Dict(fields) == [is_dict |-> TRUE, fields |-> fields]
NotADict     == [is_dict |-> FALSE, fields |-> <<>>]

\* my_trading_terms.json: missing or malformed (load_data_from_file gives []),
\* not a list, a list with a repeated term and partial records, a list of
\* two terms.
TermsMissing == [is_list |-> TRUE, items |-> <<>>]
TermsNotList == [is_list |-> FALSE, items |-> <<>>]
TermsRepeated ==
    [is_list |-> TRUE,
     items |-> << Dict([term |-> <<"P","i","p">>, definition |-> D1]),
                  Dict([term |-> <<"G","a","p">>]),
                  NotADict,
                  Dict([definition |-> D3]),
                  Dict([term |-> <<"P","I","P">>, definition |-> D2]) >>]
TermsTwo ==
    [is_list |-> TRUE,
     items |-> << Dict([term |-> <<"p","i","p">>, definition |-> D1]),
                  Dict([term |-> <<"E","x","p","l","a","i","n"," ","F","x">>,
                        definition |-> D2]) >>]

\* persona_config.json: missing (gives []), ending with a user turn, ending
\* with a model turn.
PersonaMissing == <<>>
PersonaEndsUser ==
    <<Turn("user", <<"B","e"," ","k","i","n","d">>), Turn("model", <<"O","k">>),
      Turn("user", <<"G","o">>)>>
PersonaEndsModel ==
    <<Turn("user", <<"B","e"," ","b","r","i","e","f">>), Turn("model", <<"H","e","y">>)>>

\* persona_help.txt: missing (gives "") or a text.
HelpMissing == <<>>
HelpFile    == <<"U","s","e"," ","/","h","e","l","p">>

Env(api_key, help_file, persona_file, terms_file) ==
    [api_key |-> api_key, help_file |-> help_file,
     persona_file |-> persona_file, terms_file |-> terms_file]

Environments ==
    { Env(FALSE, HelpFile, PersonaMissing, TermsMissing),
      Env(TRUE, HelpMissing, PersonaMissing, TermsNotList),
      Env(TRUE, HelpFile, PersonaEndsUser, TermsRepeated),
      Env(TRUE, HelpFile, PersonaEndsModel, TermsTwo) }

\* What the remote end may do with one send.
Reply(kind, text, prompt_feedback, error) ==
    [kind |-> kind, text |-> text, prompt_feedback |-> prompt_feedback, error |-> error]

Replies ==
    { Reply("text", <<"A"," ","p","i","p">>, <<>>, <<>>),
      Reply("blocked", <<>>, <<"S","A","F","E","T","Y">>, <<>>),
      Reply("blocked", <<>>, <<>>, <<>>),
      Reply("text_error", <<>>, <<>>, <<"b","a","d">>),
      Reply("send_error", <<>>, <<>>, <<"5","0","3">>) }

\* What the user may type.
TypedInputs ==
    { <<"Q","u","i","t">>,
      <<"E","X","I","T">>,
      <<"/","R","e","s","e","t">>,
      <<"/","H","E","L","P">>,
      <<"/","m","y","_","T","e","r","m","s">>,
      <<"/","R","a","n","d","o","m","_","T","e","r","m">>,
      <<"W","h","a","t"," ","i","s"," ","P","i","p">>,
      <<"e","x","p","l","a","i","n"," ","P","I","P">> }

\* The indices random.choice may return, and the replies the remote end may
\* give, in a run that gets to ask for them (one value stands for "not
\* asked" in a run that does not).
Picks(kb, branch) ==
    IF Len(kb) > 0 /\ branch = "random_term" THEN 1..Len(kb) ELSE {1}

RepliesTo(kb, branch) ==
    IF branch = "query" \/ (branch = "random_term" /\ Len(kb) > 0)
    THEN Replies
    ELSE {Reply("text", <<>>, <<>>, <<>>)}

NoEvent == [event |-> "start", input |-> <<>>, branch |-> "none",
            calls |-> NoCalls, choices |-> 0, returned |-> <<>>]

\* The state a script run leaves.
Apply(r, event, input) ==
    /\ agent_initialized' = r.ss.agent_initialized
    /\ help_text' = r.ss.help_text
    /\ help_text_content' = r.ss.help_text_content
    /\ initial_chat_history_template' = r.ss.initial_chat_history_template
    /\ knowledge_base' = r.ss.knowledge_base
    /\ chat_history' = r.ss.chat_history
    /\ display_messages' = r.ss.display_messages
    /\ log_file' = r.ss.log_file
    /\ notice' = r.notice
    /\ session_ended' = (session_ended \/ r.branch = "quit")
    /\ steps' = steps + 1
    /\ last' = [event |-> event, input |-> input, branch |-> r.branch,
                calls |-> r.calls, choices |-> r.choices, returned |-> r.returned]
    /\ UNCHANGED <<env, fs_ok>>

\* The first script run of a page load.
Init ==
    \E e \in Environments, ok \in BOOLEAN :
        LET r == initialize(EmptySession, e, ok, <<>>, "none")
        IN  /\ env = e
            /\ fs_ok = ok
            /\ agent_initialized = r.ss.agent_initialized
            /\ help_text = r.ss.help_text
            /\ help_text_content = r.ss.help_text_content
            /\ initial_chat_history_template = r.ss.initial_chat_history_template
            /\ knowledge_base = r.ss.knowledge_base
            /\ chat_history = r.ss.chat_history
            /\ display_messages = r.ss.display_messages
            /\ log_file = r.ss.log_file
            /\ notice = r.notice
            /\ session_ended = FALSE
            /\ steps = 0
            /\ last = NoEvent

\* The chat input is drawn only once the agent is initialized (st.stop() of
\* lines 151, 206 and 210).
TypeInput ==
    /\ agent_initialized
    /\ steps < MaxSteps
    /\ \E q \in TypedInputs :
         \E pick \in Picks(knowledge_base, branch_of(lower(q))),
            reply \in RepliesTo(knowledge_base, branch_of(lower(q))) :
           Apply(chat_input(SessionState, fs_ok, q, pick, reply), "chat_input", q)

ClickReset ==
    /\ steps < MaxSteps
    /\ Apply(sidebar_reset(SessionState, env, fs_ok), "reset_button", <<>>)

ClickHelp ==
    /\ steps < MaxSteps
    /\ Apply(sidebar_help(SessionState, env, fs_ok), "help_button", <<>>)

ClickMyTerms ==
    /\ steps < MaxSteps
    /\ Apply(sidebar_my_terms(SessionState, env, fs_ok), "my_terms_button", <<>>)

ClickRandomTerm ==
    /\ steps < MaxSteps
    /\ \E pick \in Picks(knowledge_base, "random_term"),
          reply \in RepliesTo(knowledge_base, "random_term") :
           Apply(sidebar_random_term(SessionState, env, fs_ok, pick, reply),
                 "random_term_button", <<>>)

\* The log file stops being writable.
FsFail ==
    /\ fs_ok
    /\ steps < MaxSteps
    /\ fs_ok' = FALSE
    /\ UNCHANGED <<env, agent_initialized, help_text, help_text_content,
                   initial_chat_history_template, knowledge_base, chat_history,
                   display_messages, log_file, notice, session_ended, steps, last>>

Next ==
    \/ TypeInput
    \/ ClickReset
    \/ ClickHelp
    \/ ClickMyTerms
    \/ ClickRandomTerm
    \/ FsFail

Spec == Init /\ [][Next]_vars

\* Knowledge-base construction on its own: the terms file is any list of at
\* most MaxRecords records of the pool, or not a list; the user lists the
\* terms.
RecordPool ==
    { Dict([term |-> <<"P","i","p">>, definition |-> D1]),
      Dict([term |-> <<"P","I","P">>, definition |-> D2]),
      Dict([term |-> <<"G","a","p">>, definition |-> D1]),
      Dict([term |-> <<"g","a","p">>]),
      Dict([definition |-> D3]),
      NotADict }

TermsFiles ==
    {TermsNotList} \cup
    UNION { {[is_list |-> TRUE, items |-> items] : items \in [1..n -> RecordPool]}
              : n \in 0..MaxRecords }

InitTerms ==
    \E terms \in TermsFiles :
        LET e == Env(TRUE, HelpFile, PersonaMissing, terms)
            r == initialize(EmptySession, e, TRUE, <<>>, "none")
        IN  /\ env = e
            /\ fs_ok = TRUE
            /\ agent_initialized = r.ss.agent_initialized
            /\ help_text = r.ss.help_text
            /\ help_text_content = r.ss.help_text_content
            /\ initial_chat_history_template = r.ss.initial_chat_history_template
            /\ knowledge_base = r.ss.knowledge_base
            /\ chat_history = r.ss.chat_history
            /\ display_messages = r.ss.display_messages
            /\ log_file = r.ss.log_file
            /\ notice = r.notice
            /\ session_ended = FALSE
            /\ steps = 0
            /\ last = NoEvent

NextTerms == ClickMyTerms

SpecTerms == InitTerms /\ [][NextTerms]_vars

-----------------------------------------------------------------------------
(* Properties.                                                              *)

upper(s) == [i \in 1..Len(s) |-> upper_char(s[i])]

\* The casings of a text the properties try.
Casings(s) == {s, title(s), upper(s)}

\* The texts of the local messages of a list of UI messages.
LocalTexts(messages) ==
    SelectSeq(messages, LAMBDA m : m.speaker_type = "local")

CountOf(messages, speaker_type) ==
    Cardinality({i \in 1..Len(messages) : messages[i].speaker_type = speaker_type})

\* A log line that carries a speaker tag.
IsTagged(line) == Len(line) >= 2 /\ line[2] = ": "

Contains(seq, x) == \E i \in 1..Len(seq) : seq[i] = x

\* C1: for every key X of the knowledge base, "What is X" and "Explain X", in
\* any casing, give process_ai_query the candidate key and the local message
\* that X alone gives it.
C1_PrefixedQueryResolvesLikeBareTerm ==
    agent_initialized =>
        \A k \in {knowledge_base[i][1] : i \in 1..Len(knowledge_base)} :
          \A pre \in Casings(WHAT_IS) \cup Casings(EXPLAIN), x \in Casings(k) :
            \A reply \in Replies :
              LET asked == process_ai_query(pre \o x, lower(pre \o x), chat_history,
                               knowledge_base, log_file, fs_ok,
                               initial_chat_history_template, reply)
                  bare  == process_ai_query(x, lower(x), chat_history,
                               knowledge_base, log_file, fs_ok,
                               initial_chat_history_template, reply)
              IN  /\ asked.key = bare.key
                  /\ LocalTexts(asked.messages_for_ui) = LocalTexts(bare.messages_for_ui)

\* C2: a random-term command on an empty knowledge base, typed or clicked,
\* calls neither random.choice nor process_ai_query and appends the fixed
\* empty-knowledge-base message to the transcript and to the log.
C2_RandomTermOnEmptyKnowledgeBase ==
    (/\ agent_initialized
     /\ last.branch = "random_term"
     /\ Len(knowledge_base) = 0
     /\ fs_ok)
    => /\ last.choices = 0
       /\ last.calls = NoCalls
       /\ \E msg \in {TYPED_NO_TERMS, SIDEBAR_NO_TERMS} :
            /\ Len(display_messages) > 0
            /\ display_messages[Len(display_messages)] = Assistant(msg)
            /\ Contains(log_file, <<"AI Agent", ": ">> \o msg)

\* The speaker tag under which process_ai_query logs a message.
TagOf(speaker_type) ==
    CASE speaker_type = "local"        -> "AI Agent (Local)"
      [] speaker_type = "llm"          -> "AI Agent (LLM)"
      [] speaker_type = "system_error" -> "System Error"
      [] OTHER                         -> "System"

\* The shape of the list a failed send returns: no llm message, one
\* system_error, one system_info right after it.
FailureShape(messages) ==
    /\ CountOf(messages, "llm") = 0
    /\ CountOf(messages, "system_error") = 1
    /\ CountOf(messages, "system_info") = 1
    /\ \E i \in 1..(Len(messages) - 1) :
         /\ messages[i].speaker_type = "system_error"
         /\ messages[i + 1].speaker_type = "system_info"

FailedCall(call)  == call.reply.kind = "send_error"

\* A call of process_ai_query whose send raised leaves this behind.
C3_AfterFailedSend ==
    \A i \in 1..Len(last.calls) :
        FailedCall(last.calls[i]) =>
            /\ FailureShape(last.calls[i].messages_for_ui)
            /\ last.calls[i].history_after = last.calls[i].history_before
            /\ chat_history = last.calls[i].history_before
            /\ agent_initialized

\* The turn after a failed send: it starts from the history the failed turn
\* left, and a send that does not raise appends its request and its response
\* and returns exactly one llm message.
C3_NextTurnAfterFailure ==
    (/\ steps' = steps + 1
     /\ \E i \in 1..Len(last.calls) : FailedCall(last.calls[i])
     /\ Len(last'.calls) > 0)
    => LET call == last'.calls[1]
       IN  /\ call.history_before = chat_history
           /\ chat_history' = call.history_after
           /\ ~FailedCall(call) =>
                /\ chat_history' = chat_history
                       \o <<Turn("user", call.prompt),
                            Turn("model", IF call.reply.kind = "text"
                                          THEN call.reply.text ELSE <<>>)>>
                /\ CountOf(call.messages_for_ui, "llm") = 1
                /\ CountOf(call.messages_for_ui, "system_error") = 0
           /\ FailedCall(call) => FailureShape(call.messages_for_ui)

\* C3: when send_message raises, process_ai_query returns one system_error
\* message immediately followed by one system_info message and no llm message,
\* the conversation history is what it was before the call, and the next user
\* turn is processed normally.
C3_SendFailureIsRecovered ==
    [](C3_AfterFailedSend) /\ [][C3_NextTurnAfterFailure]_vars

\* C3 witness: a turn whose send succeeded, after a turn whose send raised.
C3_Witness ==
    /\ Len(last.calls) > 0
    /\ last.calls[1].reply.kind = "text"
    /\ \E i \in 1..Len(log_file) : log_file[i][1] = "System Error"
    /\ Len(chat_history) = Len(initial_chat_history_template) + 2

\* C4: every message process_ai_query returns has a speaker-tagged entry in
\* the session log, and the entries are in the order of the returned list.
C4_EveryMessageIsLogged ==
    \A i \in 1..Len(last.calls) :
        LET call   == last.calls[i]
            tagged == SelectSeq(call.logged, IsTagged)
        IN  call.log_ok =>
                /\ Len(tagged) = Len(call.messages_for_ui)
                /\ \A j \in 1..Len(call.messages_for_ui) :
                     tagged[j] = <<TagOf(call.messages_for_ui[j].speaker_type), ": ">>
                                     \o call.messages_for_ui[j].text

\* C5: once a quit or exit has been handled, nothing is processed: the
\* transcript, the log and the conversation history stay as they are.
C5_NothingAfterQuit ==
    [][session_ended =>
          UNCHANGED <<display_messages, log_file, chat_history>>]_vars

EndsWithModel(history) ==
    Len(history) > 0 /\ history[Len(history)].role = "model"

\* C6: a reset, typed or clicked, leaves the conversation history equal to
\* the persona template, with none of the turns sent since, and leaves one
\* message in the transcript: the template's trailing model turn when the
\* template ends with one.
C6_ResetRestoresPersona ==
    last.branch = "reset" =>
        /\ initial_chat_history_template = load_or_default(env.persona_file, DEFAULT_PERSONA)
        /\ chat_history = initial_chat_history_template
        /\ Len(display_messages) = 1
        /\ EndsWithModel(initial_chat_history_template) =>
              display_messages[1] =
                  Assistant(initial_chat_history_template[
                                Len(initial_chat_history_template)].parts[1].text)

\* C6 witness: a reset after a turn that the remote end answered, under a
\* template that ends with a model turn.
C6_Witness ==
    /\ last.branch = "reset"
    /\ EndsWithModel(initial_chat_history_template)
    /\ \E i \in 1..Len(log_file) : log_file[i][1] = "AI Agent (LLM)"
    /\ chat_history = initial_chat_history_template

\* The command tokens.
Tokens == {QUIT, EXIT, RESET, HELP, MY_TERMS, RANDOM_TERM}

\* An input that differs from the token only in the casing of its letters
\* has just been handled.
Handled(token) ==
    /\ steps' = steps + 1
    /\ last'.event = "chat_input"
    /\ upper(last'.input) = upper(token)

\* s and t are equal but at position p, where s has a and t has b.
SameBut(s, t, p, a, b) ==
    /\ Len(s) = Len(t)
    /\ p \in 1..Len(s)
    /\ s[p] = a
    /\ t[p] = b
    /\ \A i \in 1..Len(s) : i # p => s[i] = t[i]

\* C7 as claimed: a command typed in any casing takes the branch of its
\* lower-case spelling and leaves the transcript, the log and the history
\* that the lower-case spelling leaves, from the same state.
C7_CasingChangesNothing ==
    [][\A token \in Tokens : Handled(token) =>
          \E pick \in Picks(knowledge_base, "random_term"),
             reply \in RepliesTo(knowledge_base, "random_term") :
            LET canon == chat_input(SessionState, fs_ok, token, pick, reply)
            IN  /\ canon.branch = last'.branch
                /\ canon.branch # "query"
                /\ chat_history' = canon.ss.chat_history
                /\ display_messages' = canon.ss.display_messages
                /\ log_file' = canon.ss.log_file]_vars

\* C7 as amended: a command typed in any casing takes the branch of its
\* lower-case spelling and leaves the same history, and the same transcript
\* and log but for the echo of the input, which is kept as typed (the user's
\* entry of the transcript, which a reset clears, and the User line of the log).
C7_CasingChangesOnlyTheEcho ==
    [][\A token \in Tokens : Handled(token) =>
          \E pick \in Picks(knowledge_base, "random_term"),
             reply \in RepliesTo(knowledge_base, "random_term") :
            LET typed == last'.input
                canon == chat_input(SessionState, fs_ok, token, pick, reply)
            IN  /\ canon.branch = last'.branch
                /\ canon.branch # "query"
                /\ chat_history' = canon.ss.chat_history
                /\ IF last'.branch = "reset"
                   THEN display_messages' = canon.ss.display_messages
                   ELSE SameBut(display_messages', canon.ss.display_messages,
                                Len(display_messages) + 1,
                                User(typed), User(token))
                /\ IF fs_ok
                   THEN SameBut(log_file', canon.ss.log_file, Len(log_file) + 1,
                                <<"User", ": ">> \o typed,
                                <<"User", ": ">> \o token)
                   ELSE log_file' = canon.ss.log_file]_vars

\* C7 witness: a command typed with upper-case letters has been dispatched.
C7_Witness ==
    /\ last.event = "chat_input"
    /\ last.branch = "help"
    /\ last.input # lower(last.input)
    /\ last.returned = help_text_content

\* C8: when the candidate key is not in the knowledge base, process_ai_query
\* returns no local message and sends the user's text as typed; when it is
\* and the send succeeds, it returns one local message, with the title-cased
\* term and the stored definition, then one llm message.
C8_PromptAndMessagesOfACall ==
    \A i \in 1..Len(last.calls) :
        LET call == last.calls[i]
            m    == call.messages_for_ui
            key  == call.key
        IN  /\ last.branch = "query" => call.original = last.input
            /\ ~dict_has(knowledge_base, key) =>
                  /\ CountOf(m, "local") = 0
                  /\ call.prompt = call.original
            /\ (dict_has(knowledge_base, key) /\ ~FailedCall(call)) =>
                  /\ Len(m) = 2
                  /\ m[1].speaker_type = "local"
                  /\ m[2].speaker_type = "llm"
                  /\ SubSeq(m[1].text, 2, Len(key) + 1) = title(key)
                  /\ SubSeq(m[1].text, Len(key) + 3,
                            Len(key) + 2 + Len(dict_get(knowledge_base, key)))
                        = dict_get(knowledge_base, key)

\* C8 witness: a query typed with upper-case letters whose key is not in the
\* knowledge base although the knowledge base has terms.
C8_Witness ==
    /\ last.branch = "query"
    /\ Len(last.calls) = 1
    /\ Len(knowledge_base) > 0
    /\ ~dict_has(knowledge_base, last.calls[1].key)
    /\ last.input # lower(last.input)
    /\ last.calls[1].prompt = last.input

\* The records of the terms file that have both fields.
IsComplete(item) ==
    item.is_dict /\ "term" \in DOMAIN item.fields /\ "definition" \in DOMAIN item.fields

CompleteRecords(loaded_terms) ==
    {i \in 1..Len(loaded_terms.items) : IsComplete(loaded_terms.items[i])}

\* Every key of the knowledge base is the lower-cased term of a record with
\* both fields, and no key is there twice.
KeysFromCompleteRecords ==
    /\ \A j \in 1..Len(knowledge_base) :
         \E i \in CompleteRecords(env.terms_file) :
            knowledge_base[j][1] = lower(env.terms_file.items[i].fields.term)
    /\ \A j, k \in 1..Len(knowledge_base) :
         knowledge_base[j][1] = knowledge_base[k][1] => j = k

\* C9 as claimed: the lower-cased term of every record with both fields looks
\* up that record's definition, and the other records contribute no key.
C9_EveryRecordKeepsItsDefinition ==
    (agent_initialized /\ env.terms_file.is_list) =>
        /\ \A i \in CompleteRecords(env.terms_file) :
             LET item == env.terms_file.items[i].fields
             IN  /\ dict_has(knowledge_base, lower(item.term))
                 /\ dict_get(knowledge_base, lower(item.term)) = item.definition
        /\ KeysFromCompleteRecords

\* C9 as amended: the lower-cased term of every record with both fields looks
\* up the definition of the last record with both fields whose term
\* lower-cases to the same key (its own when no later record repeats the
\* term), and the other records contribute no key.
C9_LastRecordOfATermWins ==
    (agent_initialized /\ env.terms_file.is_list) =>
        /\ \A i \in CompleteRecords(env.terms_file) :
             LET items == env.terms_file.items
                 key   == lower(items[i].fields.term)
                 same  == {j \in CompleteRecords(env.terms_file) :
                              lower(items[j].fields.term) = key}
                 final == CHOOSE j \in same : \A k \in same : k <= j
             IN  /\ dict_has(knowledge_base, key)
                 /\ dict_get(knowledge_base, key) = items[final].fields.definition
        /\ KeysFromCompleteRecords

\* C9 witness: a knowledge base built from a list in which a term comes twice,
\* in two casings and with two definitions, among records with a field missing.
C9_Witness ==
    /\ agent_initialized
    /\ env.terms_file.is_list
    /\ \E i, j \in CompleteRecords(env.terms_file) :
         /\ i < j
         /\ env.terms_file.items[i].fields.term # env.terms_file.items[j].fields.term
         /\ lower(env.terms_file.items[i].fields.term)
               = lower(env.terms_file.items[j].fields.term)
         /\ env.terms_file.items[i].fields.definition
               # env.terms_file.items[j].fields.definition
    /\ \E i \in 1..Len(env.terms_file.items) : ~IsComplete(env.terms_file.items[i])
    /\ Len(knowledge_base) = 1

\* C10: a help invocation, typed or clicked, leaves the conversation history,
\* the knowledge base and the stored help text as they are, and returns the
\* text the help invocation just before it returned.
C10_HelpIsIdempotent ==
    [][(steps' = steps + 1 /\ last'.branch = "help") =>
          /\ UNCHANGED <<chat_history, knowledge_base, help_text, help_text_content,
                         initial_chat_history_template>>
          /\ last'.returned # <<>>
          /\ display_messages'[Len(display_messages')] = Assistant(last'.returned)
          /\ last.branch = "help" => last'.returned = last.returned]_vars

\* C10 witness: the Help button clicked right after /help was typed, with a
\* help file on disk.
C10_Witness ==
    /\ last.event = "help_button"
    /\ last.branch = "help"
    /\ env.help_file # <<>>
    /\ Len(display_messages) >= 3
    /\ display_messages[Len(display_messages)] = Assistant(last.returned)
    /\ display_messages[Len(display_messages) - 1] = Assistant(last.returned)
    /\ display_messages[Len(display_messages) - 2].role = "user"
    /\ lower(display_messages[Len(display_messages) - 2].content) = HELP

\* The script run of a user event.
RunOf(event, input, ss, e, ok, pick, reply) ==
    CASE event = "chat_input"         -> chat_input(ss, ok, input, pick, reply)
      [] event = "reset_button"       -> sidebar_reset(ss, e, ok)
      [] event = "help_button"        -> sidebar_help(ss, e, ok)
      [] event = "my_terms_button"    -> sidebar_my_terms(ss, e, ok)
      [] OTHER                        -> sidebar_random_term(ss, e, ok, pick, reply)

\* The first script run does what it does with a writable log file.
StartsAsWithWritableLog ==
    steps = 0 =>
        LET good == initialize(EmptySession, env, TRUE, <<>>, "none")
        IN  /\ agent_initialized = good.ss.agent_initialized
            /\ display_messages = good.ss.display_messages
            /\ chat_history = good.ss.chat_history
            /\ knowledge_base = good.ss.knowledge_base
            /\ notice = good.notice

\* A script run after the first does what it does with a writable log file.
RunsAsWithWritableLog ==
    (steps' = steps + 1 /\ agent_initialized) =>
        \E pick \in Picks(knowledge_base, "random_term"),
           reply \in RepliesTo(knowledge_base, "random_term") \cup Replies :
            LET good == RunOf(last'.event, last'.input, SessionState, env, TRUE,
                              pick, reply)
            IN  /\ [good.ss EXCEPT !.log_file = <<>>]
                       = [SessionState' EXCEPT !.log_file = <<>>]
                /\ notice' = good.notice
                /\ last'.branch = good.branch
                /\ last'.returned = good.returned
                /\ Len(last'.calls) = Len(good.calls)
                /\ \A i \in 1..Len(good.calls) :
                     last'.calls[i].messages_for_ui = good.calls[i].messages_for_ui

\* C11: a failure to write to the session log, be it the header at session
\* start or any later entry, aborts nothing: the operation in progress ends
\* with the UI messages and the session state it has when the write succeeds.
C11_LogFailureAbortsNothing ==
    [](StartsAsWithWritableLog) /\ [][RunsAsWithWritableLog]_vars

\* What does hold: a failed write of an entry after the header aborts nothing.
LaterLogFailuresAbortNothing == [][RunsAsWithWritableLog]_vars

BlockedCall(call) == call.reply.kind = "blocked"

\* C12: when the send succeeds and the reply's text is blocked, the call
\* returns exactly one llm message, which carries the blocked-or-empty
\* placeholder, followed by the prompt feedback when there is one, and
\* returns no system_error and no system_info message.
C12_BlockedReplyIsADegradedSuccess ==
    \A i \in 1..Len(last.calls) :
        LET call == last.calls[i]
            m    == call.messages_for_ui
            llm  == m[Len(m)]
        IN  BlockedCall(call) =>
                /\ CountOf(m, "llm") = 1
                /\ CountOf(m, "system_error") = 0
                /\ CountOf(m, "system_info") = 0
                /\ llm.speaker_type = "llm"
                /\ llm.text[1] = "[LLM Response blocked or contained no valid text content]"
                /\ IF call.reply.prompt_feedback # <<>>
                   THEN /\ Len(llm.text) = 2 + Len(call.reply.prompt_feedback)
                        /\ SubSeq(llm.text, 3, Len(llm.text)) = call.reply.prompt_feedback
                   ELSE Len(llm.text) = 1

\* C12 witness: a typed query whose reply was blocked, with prompt feedback,
\* after a local hit.
C12_Witness ==
    /\ last.branch = "query"
    /\ Len(last.calls) = 1
    /\ BlockedCall(last.calls[1])
    /\ last.calls[1].reply.prompt_feedback # <<>>
    /\ Len(last.calls[1].messages_for_ui) = 2
    /\ dict_has(knowledge_base, last.calls[1].key)

\* The marker lines of the commands.
MarkerLines ==
    {<<"--- User clicked Reset Chat button from sidebar ---">>,
     <<"--- User clicked Explain Random Term button ---">>,
     <<"--- User typed /reset ---">>,
     <<"--- User typed /help ---">>,
     <<"--- User typed /my_terms ---">>,
     <<"--- User typed /random_term ---">>}

SeparatorLines == {<<"---">>, <<DASHES_30>>, <<EQUALS_40>>}

\* The entries a script run wrote to the log, after the echo of a typed input.
EntriesOfTheBranch ==
    LET added == SubSeq(log_file', Len(log_file) + 1, Len(log_file'))
    IN  IF last'.event = "chat_input" THEN Tail(added) ELSE added

\* C13: every branch of the dispatcher, typed or clicked, writes to a
\* writable log a marker line naming the command as its first entry and a
\* separator line as its last entry.
C13_EveryBranchLogsMarkerAndSeparator ==
    [][(steps' = steps + 1 /\ agent_initialized /\ fs_ok) =>
            /\ Len(EntriesOfTheBranch) >= 2
            /\ EntriesOfTheBranch[1] \in MarkerLines
            /\ EntriesOfTheBranch[Len(EntriesOfTheBranch)] \in SeparatorLines]_vars

\* The call process_ai_query made for the key the random-term command chose.
RandomTermCall == last.calls[1]

\* C14: whenever the random-term command, typed or clicked, has chosen a key
\* of a non-empty knowledge base, the call made for that key looks up the
\* chosen key itself: the returned list starts with the local message quoting
\* the chosen term's stored definition, and the model is sent the augmented
\* prompt, not the bare term.
C14_RandomTermFindsItsKey ==
    (last.branch = "random_term" /\ Len(last.calls) = 1) =>
        LET key == RandomTermCall.lower
            m   == RandomTermCall.messages_for_ui
        IN  /\ dict_has(knowledge_base, key)
            /\ RandomTermCall.key = key
            /\ Len(m) >= 1
            /\ m[1] = UIMessage("local",
                          local_def_message(title(key),
                                            dict_get(knowledge_base, key)))
            /\ RandomTermCall.prompt =
                   augmented_prompt(title(key), dict_get(knowledge_base, key),
                                    initial_chat_history_template)
            /\ RandomTermCall.prompt # RandomTermCall.original

\* The empty-knowledge-base notices of the typed command and of the button.
EmptyNotices == {TYPED_NO_TERMS, SIDEBAR_NO_TERMS}

\* A log line that carries one of the notices.
IsEmptyNoticeLine(line) ==
    \E n \in EmptyNotices : line = <<"AI Agent", ": ">> \o n

\* A script run showed the warning that the agent is not initialized.
ShowedNotInitialized == notice' = <<"Agent not initialized yet.">>

\* C15: a random-term command, typed or clicked, on a non-empty knowledge
\* base adds the empty-knowledge-base notice neither to the transcript nor to
\* the log, and a script run shows the warning "Agent not initialized yet."
\* only when the agent is not initialized.
C15_EmptyNoticeOnlyWhenEmpty ==
    [][(steps' = steps + 1) =>
          /\ (agent_initialized /\ Len(knowledge_base) > 0) =>
                /\ \A i \in 1..Len(display_messages') :
                      display_messages'[i].content \notin EmptyNotices
                /\ \A i \in (Len(log_file) + 1)..Len(log_file') :
                      ~IsEmptyNoticeLine(log_file'[i])
          /\ ShowedNotInitialized => ~agent_initialized]_vars

====
